---- MODULE Spec2Model ----
(***************************************************************************)
(* Class-Availability-Tracker: the openness classifier (src/parser.py),    *)
(* the two notification-state implementations (src/notifier.py used by     *)
(* src/checker_playwright.py, and the one inside src/runner.py) and the    *)
(* check cycles that drive them.  Both implementations keep their state in *)
(* the same file, data/notified.json.                                      *)
(*                                                                         *)
(* Time is counted in ticks of 30 minutes, so the one hour of              *)
(* RENOTIFY_AFTER and the 3600 seconds of backoff_seconds are 2 ticks.     *)
(* Python strings are sequences of one-character strings; Python's None is *)
(* the sequence None for a string and NoneInt for an integer.              *)
(***************************************************************************)
EXTENDS Integers, Sequences, FiniteSets, TLC

VARIABLES
    store,      \* data/notified.json: label -> entry, NoEntry for a missing key
    now,        \* the wall clock, in ticks
    rpc,        \* runner.main: "idle" (not running) or "loop" (inside the for loop)
    rNotified,  \* runner.main's in-memory dict `notified`
    rLabels,    \* runner.main: the labels the for loop still has to visit
    ev,         \* what the last check cycle saw, decided and did (history)
    obs,        \* label -> the row the last cycle matched for it (history)
    lastSent,   \* label -> tick of the last delivered notification (history)
    minGap,     \* label -> least time between two delivered notifications (history)
    failed,     \* label -> the last cycle decided to notify and delivery failed (history)
    again,      \* label -> the decision of the cycle after a failed one (history)
    visits,     \* the iterations of runner.main's loop so far, in order (history)
    procs,      \* overlapping checker_playwright.main processes: where each one is
    call,       \* the last call of a function or command: its arguments and its result
    subs        \* data/subscriptions.json: label -> list of user ids

\* obs, lastSent, minGap, failed and again are kept under SpecSteady only,
\* visits under SpecRunner only.
hist == <<obs, lastSent, minGap, failed, again, visits>>
\* procs is used under SpecOverlap only, call under SpecPure and SpecBot only,
\* subs under SpecBot only.
aux == <<procs, call, subs>>
vars == <<store, now, rpc, rNotified, rLabels, ev, obs, lastSent, minGap, failed, again,
          visits, procs, call, subs>>

----------------------------------------------------------------------------
(* Bounds of the model. *)

MaxTime == 4
MaxEnrolled == 2
MaxSeats == 1

(* Program constants, in ticks of 30 minutes. *)
RENOTIFY_AFTER == 2
backoff_seconds == 2

Labels == {"CS 4349.003"}

----------------------------------------------------------------------------
(* Python values. *)

None == <<"None">>
NoneInt == -1

S_open == <<"o", "p", "e", "n">>
S_closed == <<"c", "l", "o", "s", "e", "d">>
S_full == <<"f", "u", "l", "l">>
S_waitlist == <<"w", "a", "i", "t", "l", "i", "s", "t">>
S_available == <<"a", "v", "a", "i", "l", "a", "b", "l", "e">>
S_seat == <<"s", "e", "a", "t">>
S_wait_list == <<"w", "a", "i", "t", " ", "l", "i", "s", "t">>
S_wl == <<"w", "l">>

\* Python's `token in status` for strings.
Contains(s, token) ==
    \E i \in 1..(Len(s) - Len(token) + 1) : SubSeq(s, i, i + Len(token) - 1) = token

\* The status words parse_row_element's keyword scan can produce.
StatusTexts == {None, S_open, S_full, S_waitlist, S_closed}

\* A parsed row (the dict parse_row_element returns, without label and raw).
\* enrolled and capacity come from one regex match: both present or both absent.
Infos ==
    { [enrolled |-> e, capacity |-> IF e = NoneInt THEN NoneInt ELSE MaxEnrolled,
       seats_available |-> s, status_text |-> st] :
         e \in {NoneInt} \cup 0..MaxEnrolled,
         s \in {NoneInt} \cup 0..MaxSeats,
         st \in StatusTexts }

\* `info = None` in the callers: no row matched the label.
NoInfo == [absent |-> TRUE, why |-> "no match"]

\* fetch_results_html returned "" (no HTML); the row selector matched no rows.
NoHtml == [absent |-> TRUE, why |-> "no html"]
NoRows == [absent |-> TRUE, why |-> "no rows"]

\* What a cycle has in hand when it has no row for its label.
NotFound == {NoHtml, NoRows, NoInfo}

\* runner.main: fetch_results_html or parse_results_fragment raised, and the
\* except of the loop body caught it.
FetchRaised == [absent |-> TRUE, why |-> "raise"]

\* state.get(label) is None.
NoEntry == [absent |-> TRUE]

\* Python's str.lower(), on the letters the model's texts use.
lower(s) ==
    [i \in 1..Len(s) |->
        CASE s[i] = "O" -> "o" [] s[i] = "P" -> "p" [] s[i] = "E" -> "e"
          [] s[i] = "N" -> "n" [] s[i] = "F" -> "f" [] s[i] = "U" -> "u"
          [] s[i] = "L" -> "l" [] s[i] = "W" -> "w" [] s[i] = "C" -> "c"
          [] s[i] = "S" -> "s" [] s[i] = "D" -> "d" [] s[i] = "A" -> "a"
          [] s[i] = "T" -> "t" [] s[i] = "I" -> "i"
          [] OTHER -> s[i]]

OpenTokens == {S_open, S_available, S_seat}
ClosedTokens == {S_full, S_closed, S_waitlist, S_wait_list, S_wl}

\* rules 3 and 4 with the closed tokens tested before the open ones.
status_is_open_closed_first(info) ==
    LET status == lower(IF info.status_text = None THEN <<>> ELSE info.status_text)
    IN  IF status # <<>>
        THEN IF \E token \in ClosedTokens : Contains(status, token)
             THEN FALSE
             ELSE \E token \in OpenTokens : Contains(status, token)
        ELSE FALSE

\* is_section_open, rules 3 and 4: the textual status, then the fallback.
status_is_open(info) ==
    \* (info.get("status_text") or "").lower()
    LET status == lower(IF info.status_text = None THEN <<>> ELSE info.status_text)
    IN  IF status # <<>>
        THEN IF \E token \in OpenTokens : Contains(status, token)
             THEN TRUE
             ELSE IF \E token \in ClosedTokens : Contains(status, token)
                  THEN FALSE
                  ELSE FALSE
        ELSE FALSE

\* is_section_open without rule 1: seats_available is not looked at.
is_section_open_no_seats_rule(info) ==
    IF info.enrolled # NoneInt /\ info.capacity # NoneInt
    THEN info.enrolled < info.capacity
    ELSE status_is_open(info)

\* is_section_open without rule 2: enrolled and capacity are not looked at.
is_section_open_no_numeric_rule(info) ==
    IF info.seats_available # NoneInt THEN info.seats_available > 0
    ELSE status_is_open(info)

is_section_open(info) ==
    IF info.seats_available # NoneInt THEN info.seats_available > 0
    ELSE IF info.enrolled # NoneInt /\ info.capacity # NoneInt
         THEN info.enrolled < info.capacity
    ELSE status_is_open(info)

\* "open" if is_open else "closed"
Collapsed(is_open) == IF is_open THEN S_open ELSE S_closed

----------------------------------------------------------------------------
(* Timestamps.  A datetime is [t, tzinfo]: datetime.utcnow() is naive       *)
(* (tzinfo "None"), datetime.now(timezone.utc) is aware (tzinfo "utc").     *)
(* isoformat() writes an aware one with the offset "+00:00" and a naive one *)
(* without, and fromisoformat() reads the offset back.  Subtracting a naive *)
(* and an aware datetime raises TypeError.                                  *)

utcnow(t) == [t |-> t, tzinfo |-> "None"]
now_utc(t) == [t |-> t, tzinfo |-> "utc"]

isoformat(dt) == [t |-> dt.t, offset |-> IF dt.tzinfo = "utc" THEN "+00:00" ELSE ""]

\* entry.get("last_notified") is None: the key is missing.
NoIso == [t |-> NoneInt, offset |-> "None"]

\* Stored timestamps no mark_notified writes: the empty string, and a string
\* that is not an ISO date.
EmptyIso == [t |-> NoneInt, offset |-> "empty"]
BadIso == [t |-> NoneInt, offset |-> "not a date"]

\* What fromisoformat returns when it raises (TypeError for None, ValueError
\* for a string that is not an ISO date).
ParseError == [t |-> NoneInt, tzinfo |-> "raise"]

\* fromisoformat reading every string as a date-time.
fromisoformat_never_raises(s) ==
    [t |-> s.t, tzinfo |-> IF s.offset = "+00:00" THEN "utc" ELSE "None"]

fromisoformat(s) ==
    IF s \in {NoIso, EmptyIso, BadIso} THEN ParseError
    ELSE [t |-> s.t, tzinfo |-> IF s.offset = "+00:00" THEN "utc" ELSE "None"]

----------------------------------------------------------------------------
(* src/notifier.py *)

\* notifier.should_notify without its "never notified about this label" rule.
notifier_should_notify_no_first_sight(state, label, is_open, t) ==
    LET entry == state[label] IN
    IF entry = NoEntry THEN "False"
    ELSE LET current == utcnow(t)
             last_notified == fromisoformat(entry.last_notified)
         IN
         IF last_notified = ParseError THEN "True"
         ELSE IF entry.last_status # Collapsed(is_open) THEN "True"
         ELSE IF ~is_open THEN "False"
         ELSE IF last_notified.tzinfo # current.tzinfo THEN "TypeError"
         ELSE IF current.t - last_notified.t > RENOTIFY_AFTER THEN "True"
         ELSE "False"

notifier_should_notify(state, label, is_open, t) ==
    LET entry == state[label] IN
    IF entry = NoEntry THEN "True"
    ELSE LET current == utcnow(t)
             last_notified == fromisoformat(entry.last_notified)
         IN
         IF last_notified = ParseError THEN "True"
         ELSE IF entry.last_status # Collapsed(is_open) THEN "True"
         ELSE IF ~is_open THEN "False"
         \* now - last_notified with an aware last_notified: TypeError, outside the try
         ELSE IF last_notified.tzinfo # current.tzinfo THEN "TypeError"
         ELSE IF current.t - last_notified.t > RENOTIFY_AFTER THEN "True"
         ELSE "False"

notifier_mark_notified(state, label, is_open, t) ==
    [state EXCEPT ![label] =
        [last_status |-> Collapsed(is_open),
         last_notified |-> isoformat(utcnow(t)),
         enrolled |-> NoneInt]]

----------------------------------------------------------------------------
(* src/runner.py *)

runner_should_notify(label, info, notified_state, t) ==
    LET entry == notified_state[label] IN
    IF entry = NoEntry THEN "True"
    \* if not last: None or the empty string
    ELSE IF entry.last_notified \in {NoIso, EmptyIso} THEN "True"
    ELSE LET current == now_utc(t)
             last_dt == fromisoformat(entry.last_notified)
         IN
         IF last_dt = ParseError THEN "True"
         \* now - last_dt with a naive last_dt: TypeError, outside the try
         ELSE IF last_dt.tzinfo # current.tzinfo THEN "TypeError"
         ELSE IF current.t - last_dt.t >= backoff_seconds
                 /\ ( info.status_text # entry.last_status
                      \/ ( info.enrolled # NoneInt /\ entry.enrolled # NoneInt
                           /\ info.enrolled < entry.enrolled ) )
              THEN "True"
         ELSE "False"

runner_mark_notified(label, info, notified_state, t) ==
    [notified_state EXCEPT ![label] =
        [last_status |-> info.status_text,
         last_notified |-> isoformat(now_utc(t)),
         enrolled |-> info.enrolled]]

----------------------------------------------------------------------------
(* History kept for the properties. *)

\* No overlapping process, no call yet.
NoProcs == [absent |-> TRUE]
NoCall == [fn |-> "none"]

\* load_subs() when there is no subscriptions file: {}
NoSubs == <<>>

NoEvent ==
    [impl |-> "none", label |-> "", matched |-> FALSE, why |-> "none", is_open |-> FALSE,
     had_entry |-> FALSE, decision |-> "none", outcome |-> "none"]

Init ==
    /\ store = [l \in Labels |-> NoEntry]
    /\ now = 0
    /\ rpc = "idle"
    /\ rNotified = [l \in Labels |-> NoEntry]
    /\ rLabels = <<>>
    /\ ev = NoEvent
    /\ obs = [l \in Labels |-> NoInfo]
    /\ lastSent = [l \in Labels |-> NoneInt]
    /\ minGap = [l \in Labels |-> NoneInt]
    /\ failed = [l \in Labels |-> FALSE]
    /\ again = [l \in Labels |-> "none"]
    /\ visits = <<>>
    /\ procs = NoProcs
    /\ call = NoCall
    /\ subs = NoSubs

\* Time passes between and during cycles.
Tick ==
    /\ now < MaxTime
    /\ now' = now + 1
    /\ UNCHANGED <<store, rpc, rNotified, rLabels, ev, hist, aux>>

\* What a delivery attempt can do: succeed, report an error status, raise.
Sent == {"True", "False", "raise"}

----------------------------------------------------------------------------
(* checker_playwright.main, from the parsed rows on.  match is the row     *)
(* whose label starts with the target label (NotFound when there is none); *)
(* sent is what notifier.notify_open does when it is called: "True" (200   *)
(* or 204), "False" (another status) or "raise" (no webhook URL, or        *)
(* requests raised); "none" when it is not called.                         *)

\* checker_playwright.main recording a closed state when it has no row.
CheckerMain_records_not_found(label, match, sent) ==
    /\ UNCHANGED <<rpc, rNotified, rLabels, now, aux>>
    /\ IF match \in NotFound
       THEN /\ sent = "none"
            /\ ev' = [NoEvent EXCEPT !.impl = "checker", !.label = label,
                                     !.why = match.why]
            /\ store' = notifier_mark_notified(store, label, FALSE, now)
       ELSE LET open_bool == is_section_open(match)
                decision == IF open_bool
                            THEN notifier_should_notify(store, label, TRUE, now)
                            ELSE "none"
            IN  /\ sent \in (IF decision = "True" THEN Sent ELSE {"none"})
                /\ store' = IF open_bool
                            THEN IF sent = "True"
                                 THEN notifier_mark_notified(store, label, TRUE, now)
                                 ELSE store
                            ELSE notifier_mark_notified(store, label, FALSE, now)
                /\ ev' = [impl |-> "checker", label |-> label, matched |-> TRUE,
                          why |-> "row",
                          is_open |-> open_bool, had_entry |-> store[label] # NoEntry,
                          decision |-> decision, outcome |-> sent]

CheckerMain(label, match, sent) ==
    /\ UNCHANGED <<rpc, rNotified, rLabels, now, aux>>
    /\ IF match \in NotFound
       THEN /\ sent = "none"
            /\ ev' = [NoEvent EXCEPT !.impl = "checker", !.label = label,
                                     !.why = match.why]
            /\ UNCHANGED store
       ELSE LET open_bool == is_section_open(match)
                decision == IF open_bool
                            THEN notifier_should_notify(store, label, TRUE, now)
                            ELSE "none"
            IN  /\ sent \in (IF decision = "True" THEN Sent ELSE {"none"})
                /\ store' = IF open_bool
                            THEN IF sent = "True"
                                 THEN notifier_mark_notified(store, label, TRUE, now)
                                 ELSE store
                            ELSE notifier_mark_notified(store, label, FALSE, now)
                /\ ev' = [impl |-> "checker", label |-> label, matched |-> TRUE,
                          why |-> "row",
                          is_open |-> open_bool, had_entry |-> store[label] # NoEntry,
                          decision |-> decision, outcome |-> sent]

----------------------------------------------------------------------------
(* runner.main *)

Perms(S) ==
    { p \in [1..Cardinality(S) -> S] : \A i, j \in 1..Cardinality(S) : p[i] = p[j] => i = j }

\* subs = load_subscriptions(); notified = load_notified(); labels = list(subs.keys())
RunnerStart ==
    /\ rpc = "idle"
    /\ rpc' = "loop"
    /\ rNotified' = store
    \* the subscribed labels are the labels of the model, the keys of the state
    /\ rLabels' \in Perms(DOMAIN store)
    /\ UNCHANGED <<store, now, ev, hist, aux>>

\* One iteration of the for loop.  info is the row whose label equals the
\* subscribed label (NotFound: none; NoInfo also when the fetch raised); sent is
\* what notify_users does when it is called: "True" (the DMs went out), "False"
\* (Discord answered with an error status: printed, not reported to main) or
\* "raise" (requests raised: main's except catches it); "none" when it is not
\* called.
\* The loop without its try/except: an exception ends runner.main.
RunnerLabel_stops_on_exception(info, sent) ==
    /\ rpc = "loop"
    /\ rLabels # <<>>
    /\ LET label == Head(rLabels) IN
       /\ LET raised == \/ info = FetchRaised
                        \/ sent = "raise"
                        \/ ( info \notin NotFound \cup {FetchRaised}
                             /\ runner_should_notify(label, info, rNotified, now) = "TypeError" )
          IN  /\ rLabels' = IF raised THEN <<>> ELSE Tail(rLabels)
              /\ rpc' = IF rLabels' = <<>> THEN "idle" ELSE "loop"
       /\ UNCHANGED <<now, aux>>
       /\ IF info \in NotFound \cup {FetchRaised}
          THEN /\ sent = "none"
               /\ ev' = [NoEvent EXCEPT !.impl = "runner", !.label = label,
                                        !.why = info.why]
               /\ UNCHANGED <<store, rNotified>>
          ELSE LET decision == runner_should_notify(label, info, rNotified, now)
                   \* notify_users returned, so mark_notified is called
                   marked == sent \in {"True", "False"}
               IN  /\ sent \in (IF decision = "True" THEN Sent ELSE {"none"})
                   /\ rNotified' = IF marked
                                   THEN runner_mark_notified(label, info, rNotified, now)
                                   ELSE rNotified
                   \* save_notified(notified_state) writes the whole dict
                   /\ store' = IF marked THEN rNotified' ELSE store
                   /\ ev' = [impl |-> "runner", label |-> label, matched |-> TRUE,
                             why |-> "row",
                             is_open |-> is_section_open(info),
                             had_entry |-> rNotified[label] # NoEntry,
                             decision |-> decision, outcome |-> sent]

RunnerLabel(info, sent) ==
    /\ rpc = "loop"
    /\ rLabels # <<>>
    /\ LET label == Head(rLabels) IN
       /\ rLabels' = Tail(rLabels)
       /\ rpc' = IF Tail(rLabels) = <<>> THEN "idle" ELSE "loop"
       /\ UNCHANGED <<now, aux>>
       /\ IF info \in NotFound \cup {FetchRaised}
          THEN /\ sent = "none"
               /\ ev' = [NoEvent EXCEPT !.impl = "runner", !.label = label,
                                        !.why = info.why]
               /\ UNCHANGED <<store, rNotified>>
          ELSE LET decision == runner_should_notify(label, info, rNotified, now)
                   \* notify_users returned, so mark_notified is called
                   marked == sent \in {"True", "False"}
               IN  /\ sent \in (IF decision = "True" THEN Sent ELSE {"none"})
                   /\ rNotified' = IF marked
                                   THEN runner_mark_notified(label, info, rNotified, now)
                                   ELSE rNotified
                   \* save_notified(notified_state) writes the whole dict
                   /\ store' = IF marked THEN rNotified' ELSE store
                   /\ ev' = [impl |-> "runner", label |-> label, matched |-> TRUE,
                             why |-> "row",
                             is_open |-> is_section_open(info),
                             had_entry |-> rNotified[label] # NoEntry,
                             decision |-> decision, outcome |-> sent]

----------------------------------------------------------------------------
(* Cycles one after the other: a checker run starts only while runner.main *)
(* is not inside its loop.                                                 *)

Next ==
    \/ Tick
    \/ \E label \in Labels, match \in Infos \cup NotFound, sent \in Sent \cup {"none"} :
          rpc = "idle" /\ CheckerMain(label, match, sent) /\ UNCHANGED hist
    \/ RunnerStart
    \/ \E info \in Infos \cup NotFound \cup {FetchRaised}, sent \in Sent \cup {"none"} :
          RunnerLabel(info, sent) /\ UNCHANGED hist

Spec == Init /\ [][Next]_vars

----------------------------------------------------------------------------
(* Steady observation: every row a cycle matches for a label is open, has  *)
(* the status text of the rows before it and an enrollment that is not     *)
(* lower than theirs.  The history of deliveries is kept along the way.    *)

SteadyRow(label, info) ==
    /\ is_section_open(info)
    /\ obs[label] # NoInfo =>
          /\ info.status_text = obs[label].status_text
          /\ info.enrolled >= obs[label].enrolled

Min(a, b) == IF a <= b THEN a ELSE b

\* Bookkeeping after the cycle of this step (ev' is that cycle).
Track(label, info) ==
    LET delivered == ev'.outcome = "True"
        gap == now - lastSent[label]
    IN  /\ obs' = [obs EXCEPT ![label] = info]
        /\ lastSent' = IF delivered THEN [lastSent EXCEPT ![label] = now] ELSE lastSent
        /\ minGap' = IF delivered /\ lastSent[label] # NoneInt
                     THEN [minGap EXCEPT ![label] =
                              IF @ = NoneInt THEN gap ELSE Min(@, gap)]
                     ELSE minGap
        /\ failed' = [failed EXCEPT ![label] =
                         ev'.decision = "True" /\ ev'.outcome \in {"False", "raise"}]
        /\ again' = [again EXCEPT ![label] =
                         IF failed[label] /\ info = obs[label]
                         THEN ev'.decision ELSE "none"]
        /\ UNCHANGED visits

SteadyChecker(label, match, sent) ==
    /\ rpc = "idle"
    /\ SteadyRow(label, match)
    /\ CheckerMain(label, match, sent)
    /\ Track(label, match)

SteadyRunner(info, sent) ==
    /\ rpc = "loop"
    /\ SteadyRow(Head(rLabels), info)
    /\ RunnerLabel(info, sent)
    /\ Track(Head(rLabels), info)

NextSteady ==
    \/ Tick
    \/ \E label \in Labels, match \in Infos, sent \in Sent \cup {"none"} :
          SteadyChecker(label, match, sent)
    \/ RunnerStart
    \/ \E info \in Infos, sent \in Sent \cup {"none"} : SteadyRunner(info, sent)

SpecSteady == Init /\ [][NextSteady]_vars

----------------------------------------------------------------------------
(* Properties.  The decision functions are read on every state file the    *)
(* cycles can leave behind and on every row.  Each implementation is asked *)
(* about the entries whose timestamp it can subtract from its own clock    *)
(* (the ones it wrote itself); on the other implementation's entries the   *)
(* subtraction raises TypeError.                                           *)

\* Time since the entry's last_notified.
Elapsed(e) == now - fromisoformat(e.last_notified).t

OwnNotifier(e) == e # NoEntry /\ fromisoformat(e.last_notified).tzinfo = "None"
OwnRunner(e) == e # NoEntry /\ fromisoformat(e.last_notified).tzinfo = "utc"

\* info.enrolled is lower than the stored enrollment.
EnrolledLower(info, e) ==
    info.enrolled # NoneInt /\ e.enrolled # NoneInt /\ info.enrolled < e.enrolled

\* C1: when an entry is stored and the open/closed classification of the row
\* differs from the entry's last_status, should_notify returns True, whatever
\* the time since the last notification.
C1_StatusChangeNotifies ==
    \A l \in Labels, info \in Infos :
        LET e == store[l]
            is_open == is_section_open(info)
        IN  ( e # NoEntry /\ e.last_status \in {S_open, S_closed}
              /\ e.last_status # Collapsed(is_open) ) =>
                /\ OwnNotifier(e) => notifier_should_notify(store, l, is_open, now) = "True"
                /\ OwnRunner(e) => runner_should_notify(l, info, store, now) = "True"

\* C3: stored last_status open, row open, enrollment not lower than the stored
\* one, and no more than the cooldown since last_notified: should_notify
\* returns False.
C3_WithinCooldownSuppressed ==
    \A l \in Labels, info \in Infos :
        LET e == store[l] IN
        ( e # NoEntry /\ e.last_status = S_open /\ is_section_open(info)
          /\ ~EnrolledLower(info, e) ) =>
            /\ (OwnNotifier(e) /\ Elapsed(e) <= RENOTIFY_AFTER) =>
                  notifier_should_notify(store, l, TRUE, now) = "False"
            /\ (OwnRunner(e) /\ Elapsed(e) <= backoff_seconds) =>
                  runner_should_notify(l, info, store, now) = "False"

\* C4: stored last_status open, row still open, enrollment unchanged, and more
\* than the cooldown since last_notified: should_notify returns True.
C4_CooldownReAlert ==
    \A l \in Labels, info \in Infos :
        LET e == store[l] IN
        ( e # NoEntry /\ e.last_status = S_open /\ is_section_open(info) ) =>
            /\ (OwnNotifier(e) /\ Elapsed(e) > RENOTIFY_AFTER) =>
                  notifier_should_notify(store, l, TRUE, now) = "True"
            /\ (OwnRunner(e) /\ info.enrolled = e.enrolled
                /\ Elapsed(e) > backoff_seconds) =>
                  runner_should_notify(l, info, store, now) = "True"

\* C5: stored last_status closed and row closed: should_notify returns False,
\* whatever the stored timestamp and the enrollment.
C5_StillClosedSuppressed ==
    \A l \in Labels, info \in Infos :
        LET e == store[l] IN
        ( e # NoEntry /\ e.last_status = S_closed /\ ~is_section_open(info) ) =>
            /\ OwnNotifier(e) => notifier_should_notify(store, l, FALSE, now) = "False"
            /\ OwnRunner(e) => runner_should_notify(l, info, store, now) = "False"

\* C6: stored last_status open, row still open, enrolled strictly lower than
\* the stored enrollment: should_notify returns True, also inside the cooldown.
C6_EnrollmentDropNotifies ==
    \A l \in Labels, info \in Infos :
        LET e == store[l] IN
        ( e # NoEntry /\ e.last_status = S_open /\ is_section_open(info)
          /\ EnrolledLower(info, e) ) =>
            /\ OwnNotifier(e) => notifier_should_notify(store, l, TRUE, now) = "True"
            /\ OwnRunner(e) => runner_should_notify(l, info, store, now) = "True"

\* C2 as stated: for a label without a stored entry, the first cycle that
\* matches a row for it decides to notify, whether the row is open or closed.
C2_FirstCycleNotifies ==
    (ev.matched /\ ~ev.had_entry) => ev.decision = "True"

\* C2, amended: for a label without a stored entry both should_notify functions
\* return True, for an open and for a closed row; a runner cycle decides to
\* notify either way, and a checker cycle does when the row is open (it does
\* not ask should_notify for a closed row).
C2_FirstSightNotifies ==
    /\ \A l \in Labels, info \in Infos, is_open \in BOOLEAN :
          store[l] = NoEntry =>
             /\ notifier_should_notify(store, l, is_open, now) = "True"
             /\ runner_should_notify(l, info, store, now) = "True"
    /\ (ev.matched /\ ~ev.had_entry /\ (ev.impl = "runner" \/ ev.is_open)) =>
          ev.decision = "True"

\* A checker cycle met an open row for a label with no entry and decided to notify.
C2_Witness ==
    /\ ev.impl = "checker" /\ ev.matched /\ ~ev.had_entry /\ ev.is_open
    /\ ev.decision = "True"

\* C7: in a run of cycles for one label, one after the other, with every row
\* open, one status text and an enrollment that never decreases, two delivered
\* notifications are more than the cooldown apart.
C7_NotificationsSpaced ==
    \A l \in Labels : minGap[l] = NoneInt \/ minGap[l] > RENOTIFY_AFTER

\* C8: when a cycle decides to notify and the delivery fails (an error status,
\* or an exception), the label's stored entry is what it was before the cycle.
C8_FailedDeliveryKeepsState ==
    [][ (ev'.decision = "True" /\ ev'.outcome \in {"False", "raise"}) =>
           store'[ev'.label] = store[ev'.label] ]_vars

\* C9: after a cycle whose delivery failed, the next cycle for the label with
\* the same row decides to notify again.
C9_FailedDeliveryRetried ==
    \A l \in Labels : again[l] \in {"none", "True"}

\* C10: after a cycle for a label, the stored entry's last_status is the
\* open/closed classification of the row the cycle matched, and its enrollment
\* is the row's.
C10_EntryRefreshed ==
    \A l \in Labels :
        obs[l] # NoInfo =>
            /\ store[l] # NoEntry
            /\ store[l].last_status = Collapsed(is_section_open(obs[l]))
            /\ store[l].enrolled = obs[l].enrolled

\* entry.get("last_notified") of a stored entry; NoIso when there is no entry.
LastNotified(e) == IF e = NoEntry THEN NoIso ELSE e.last_notified

\* C11: the stored last_notified of a label changes only in a cycle for that
\* label in which a notification was delivered.
C11_TimestampOnlyOnNotify ==
    [][ \A l \in Labels :
           LastNotified(store'[l]) # LastNotified(store[l]) =>
               (ev'.label = l /\ ev'.outcome = "True") ]_vars

----------------------------------------------------------------------------
(* The functions on their own: a behaviour is one call of one of them on   *)
(* arguments drawn from the values it accepts, and call keeps the          *)
(* arguments and the result.                                               *)

\* The timestamps a state file can hold for an entry.
IsoAny ==
    {NoIso, EmptyIso, BadIso}
        \cup { isoformat(utcnow(t)) : t \in 0..MaxTime }
        \cup { isoformat(now_utc(t)) : t \in 0..MaxTime }

\* The entries a state file can hold for a label, NoEntry for none.
EntriesAny ==
    { [last_status |-> ls, last_notified |-> ts, enrolled |-> e] :
         ls \in StatusTexts, ts \in IsoAny, e \in {NoneInt} \cup 0..MaxEnrolled }
        \cup {NoEntry}

CallNotifierShouldNotify(label, entry, is_open, t) ==
    /\ call = NoCall
    /\ call' = [fn |-> "notifier.should_notify", entry |-> entry, is_open |-> is_open,
                t |-> t,
                result |-> notifier_should_notify([l \in Labels |-> entry], label, is_open, t)]
    /\ UNCHANGED <<store, now, rpc, rNotified, rLabels, ev, hist, procs, subs>>

CallRunnerShouldNotify(label, entry, info, t) ==
    /\ call = NoCall
    /\ call' = [fn |-> "runner.should_notify", entry |-> entry, info |-> info,
                t |-> t,
                result |-> runner_should_notify(label, info, [l \in Labels |-> entry], t)]
    /\ UNCHANGED <<store, now, rpc, rNotified, rLabels, ev, hist, procs, subs>>

\* The status texts a record can carry: the parser's words, the lower-cased
\* text of a status marker, and texts in other hands' spelling.
S_Open == <<"O", "p", "e", "n">>
S_empty == <<>>
S_tba == <<"t", "b", "a">>
S_seats_available == <<"s", "e", "a", "t", "s", " ", "a", "v", "a", "i", "l", "a", "b", "l", "e">>
S_open_waitlist == <<"o", "p", "e", "n", " ", "w", "a", "i", "t", "l", "i", "s", "t">>
S_FULL == <<"F", "U", "L", "L">>

RecordStatusTexts ==
    StatusTexts \cup {S_wait_list, S_wl, S_available, S_seat, S_Open, S_empty, S_tba,
                      S_seats_available, S_open_waitlist, S_FULL}

\* The dicts is_section_open accepts: every optional field present or absent.
Records ==
    { [enrolled |-> e, capacity |-> c, seats_available |-> s, status_text |-> st] :
         e \in {NoneInt} \cup 0..MaxEnrolled,
         c \in {NoneInt} \cup 0..MaxEnrolled,
         s \in {NoneInt} \cup 0..MaxSeats,
         st \in RecordStatusTexts }

\* Python's str.strip(), for spaces.
RECURSIVE lstrip(_)
lstrip(s) == IF s # <<>> /\ Head(s) = " " THEN lstrip(Tail(s)) ELSE s

RECURSIVE rstrip(_)
rstrip(s) == IF s # <<>> /\ s[Len(s)] = " " THEN rstrip(SubSeq(s, 1, Len(s) - 1)) ELSE s

strip(s) == rstrip(lstrip(s))

\* tr.select_one("span.section-open, ...") found no element.
NoSpan == <<"no span">>

\* The text nodes of a status span.
S_sp_Open_sp == <<" ", "O", "p", "e", "n", " ">>
S_Closed == <<"C", "l", "o", "s", "e", "d">>
S_space == <<" ">>
SpanTexts == {S_Open, S_sp_Open_sp, S_Closed, S_FULL, S_empty, S_space, S_tba}

\* The text of the row outside the status span.
S_12_30 == <<"1", "2", "/", "3", "0">>
S_WL == <<"W", "L">>
S_Full_Open == <<"F", "u", "l", "l", " ", "O", "p", "e", "n">>
S_Open_Closed == <<"O", "p", "e", "n", " ", "C", "l", "o", "s", "e", "d">>
S_Closed_WL == <<"C", "l", "o", "s", "e", "d", " ", "W", "L">>
S_Available == <<"A", "v", "a", "i", "l", "a", "b", "l", "e">>
RowTexts ==
    {S_12_30, S_open, S_Open, S_FULL, S_full, S_closed, S_Closed, S_waitlist, S_wait_list,
     S_WL, S_Available, S_seats_available, S_Full_Open, S_Open_Closed, S_Closed_WL,
     S_open_waitlist, S_tba, S_empty}

\* tr.get_text(" ", strip=True): the stripped text nodes of the row, joined by
\* one space; rest stands for the nodes outside the status span.
get_text(span, rest) ==
    LET inner == IF span = NoSpan THEN <<>> ELSE strip(span)
    IN  IF inner = <<>> THEN rest
        ELSE IF rest = <<>> THEN inner
        ELSE rest \o <<" ">> \o inner

\* The keyword scan of parse_row_element over the lower-cased row text.
keyword_scan(t) ==
    IF Contains(t, S_full) THEN S_full
    ELSE IF Contains(t, S_open) \/ Contains(t, S_available)
            \/ Contains(t, S_seats_available)
            \/ Contains(t, <<"s", "e", "a", "t", " ", "a", "v", "a", "i", "l", "a", "b", "l", "e">>)
         THEN S_open
    ELSE IF Contains(t, S_waitlist) \/ Contains(t, S_wait_list) \/ Contains(t, S_wl)
         THEN S_waitlist
    ELSE IF Contains(t, S_closed) THEN S_closed
    ELSE None

\* parse_row_element, the status_text of the dict it returns.
parse_row_element(span, rest) ==
    LET text == get_text(span, rest)
        status_text == IF span # NoSpan THEN lower(strip(span)) ELSE None
    IN  \* if not status_text: None or the empty string
        IF status_text = None \/ status_text = <<>>
        THEN keyword_scan(lower(text))
        ELSE status_text

CallParseRowElement(span, rest) ==
    /\ call = NoCall
    /\ call' = [fn |-> "parse_row_element", span |-> span, rest |-> rest,
                result |-> parse_row_element(span, rest)]
    /\ UNCHANGED <<store, now, rpc, rNotified, rLabels, ev, hist, procs, subs>>

CallIsSectionOpen(info) ==
    /\ call = NoCall
    /\ call' = [fn |-> "is_section_open", info |-> info, result |-> is_section_open(info)]
    /\ UNCHANGED <<store, now, rpc, rNotified, rLabels, ev, hist, procs, subs>>

NextPure ==
    \/ /\ call = NoCall
       /\ \E info \in Records : CallIsSectionOpen(info)
    \/ /\ call = NoCall
       /\ \E span \in SpanTexts \cup {NoSpan}, rest \in RowTexts :
             CallParseRowElement(span, rest)
    \/ /\ call = NoCall
       /\ \E label \in Labels, entry \in EntriesAny, is_open \in BOOLEAN, t \in 0..MaxTime :
             CallNotifierShouldNotify(label, entry, is_open, t)
    \/ /\ call = NoCall
       /\ \E label \in Labels, entry \in EntriesAny, info \in Infos, t \in 0..MaxTime :
             CallRunnerShouldNotify(label, entry, info, t)

SpecPure == Init /\ [][NextPure]_vars

\* The call was a decision on an entry whose last_notified is missing or is
\* not a date.
MalformedTimestamp ==
    /\ call.fn \in {"notifier.should_notify", "runner.should_notify"}
    /\ call.entry # NoEntry
    /\ call.entry.last_notified \in {NoIso, EmptyIso, BadIso}

\* C12: on a stored entry whose last_notified is missing or unparsable,
\* should_notify returns True; it does not raise.
C12_MalformedTimestampNotifies ==
    MalformedTimestamp => call.result = "True"

\* notifier.should_notify returned True on an entry that says open, for an open
\* section, because the timestamp is not a date.
C12_Witness ==
    /\ MalformedTimestamp
    /\ call.fn = "notifier.should_notify"
    /\ call.entry.last_notified = BadIso
    /\ call.entry.last_status = S_open /\ call.is_open
    /\ call.result = "True"

----------------------------------------------------------------------------
\* C13: on every state file the cycles of the two programs can leave behind,
\* for every label and every row, both should_notify functions return True or
\* False; neither raises.
C13_DecisionTotal ==
    \A l \in Labels, info \in Infos :
        /\ notifier_should_notify(store, l, is_section_open(info), now) \in {"True", "False"}
        /\ runner_should_notify(l, info, store, now) \in {"True", "False"}

\* C14: the last_status of every stored entry is "open" or "closed".
C14_LastStatusCollapsed ==
    \A l \in Labels :
        store[l] # NoEntry => store[l].last_status \in {S_open, S_closed}

----------------------------------------------------------------------------
(* Overlapping check cycles: two checker_playwright.main processes, each   *)
(* for the label it was started with, sharing data/notified.json.          *)
(* should_notify reads the file, notify_open posts to Discord, and         *)
(* mark_notified loads the whole file, sets one key and writes the whole   *)
(* file back; nothing locks the file between the steps.                    *)

Procs == {"p1", "p2"}
Labels2 == {"CS 4349.003", "CS 4349.004"}

\* The state file with no entries.
EmptyState == [l \in Labels2 |-> NoEntry]

IdleProc == [pc |-> "idle", label |-> "", is_open |-> FALSE, state |-> EmptyState]

InitOverlap ==
    /\ store = EmptyState
    /\ now = 0
    /\ rpc = "idle"
    /\ rNotified = EmptyState
    /\ rLabels = <<>>
    /\ ev = NoEvent
    /\ obs = [l \in Labels2 |-> NoInfo]
    /\ lastSent = [l \in Labels2 |-> NoneInt]
    /\ minGap = [l \in Labels2 |-> NoneInt]
    /\ failed = [l \in Labels2 |-> FALSE]
    /\ again = [l \in Labels2 |-> "none"]
    /\ visits = <<>>
    /\ procs = [p \in Procs |-> IdleProc]
    /\ call = NoCall
    /\ subs = NoSubs

\* main up to the decision: classify the matched row, and for an open row ask
\* notifier.should_notify (which reads the state file).
OvlDecide(p, label, match) ==
    /\ procs[p].pc = "idle"
    /\ LET open_bool == is_section_open(match)
           decision == IF open_bool
                       THEN notifier_should_notify(store, label, TRUE, now)
                       ELSE "none"
           next_pc == IF ~open_bool THEN "load"
                      ELSE IF decision = "True" THEN "notify"
                      ELSE "idle"
       IN  procs' = [procs EXCEPT ![p] =
                        IF next_pc = "idle" THEN IdleProc
                        ELSE [IdleProc EXCEPT !.pc = next_pc, !.label = label,
                                              !.is_open = open_bool]]
    /\ UNCHANGED <<store, now, rpc, rNotified, rLabels, ev, hist, call, subs>>

\* sent = notifier.notify_open(match); a delivered notification is counted.
OvlNotify(p, sent) ==
    /\ procs[p].pc = "notify"
    /\ LET label == procs[p].label
           gap == now - lastSent[label]
       IN  /\ procs' = [procs EXCEPT ![p] =
                           IF sent = "True" THEN [procs[p] EXCEPT !.pc = "load"] ELSE IdleProc]
           /\ lastSent' = IF sent = "True" THEN [lastSent EXCEPT ![label] = now]
                          ELSE lastSent
           /\ minGap' = IF sent = "True" /\ lastSent[label] # NoneInt
                        THEN [minGap EXCEPT ![label] =
                                 IF @ = NoneInt THEN gap ELSE Min(@, gap)]
                        ELSE minGap
    /\ UNCHANGED <<store, now, rpc, rNotified, rLabels, ev, obs, failed, again, visits, call,
                   subs>>

\* notifier.mark_notified: state = _load_state(); state[label] = {...}
OvlLoad(p) ==
    /\ procs[p].pc = "load"
    /\ procs' = [procs EXCEPT ![p] =
                    [procs[p] EXCEPT
                        !.pc = "save",
                        !.state = notifier_mark_notified(store, procs[p].label,
                                                         procs[p].is_open, now)]]
    /\ UNCHANGED <<store, now, rpc, rNotified, rLabels, ev, hist, call, subs>>

\* notifier.mark_notified: _save_state(state).  After a closed row is
\* recorded, the next delivery is for a new observation.
OvlSave(p) ==
    /\ procs[p].pc = "save"
    /\ store' = procs[p].state
    /\ procs' = [procs EXCEPT ![p] = IdleProc]
    /\ lastSent' = IF procs[p].is_open THEN lastSent
                   ELSE [lastSent EXCEPT ![procs[p].label] = NoneInt]
    /\ UNCHANGED <<now, rpc, rNotified, rLabels, ev, obs, minGap, failed, again, visits,
                   call, subs>>

NextOverlap ==
    \/ \E p \in Procs, label \in Labels2, match \in Infos : OvlDecide(p, label, match)
    \/ \E p \in Procs, sent \in Sent : OvlNotify(p, sent)
    \/ \E p \in Procs : OvlLoad(p)
    \/ \E p \in Procs : OvlSave(p)

SpecOverlap == InitOverlap /\ [][NextOverlap]_vars

\* C15: when a process writes the entry of its label, the entry of every other
\* label is what it was before the write.
C15_OtherEntriesKept ==
    [][ \A p \in Procs :
           (procs[p].pc = "save" /\ procs'[p].pc = "idle") =>
               \A l \in Labels2 \ {procs[p].label} : store'[l] = store[l] ]_vars

\* C16: two notifications delivered for one label, with no closed row
\* recorded between them, are more than the cooldown apart, also when the
\* cycles overlap.
C16_NoDuplicateWhenOverlapping ==
    \A l \in Labels2 : minGap[l] # NoneInt => minGap[l] > RENOTIFY_AFTER

----------------------------------------------------------------------------
(* is_section_open on every record. *)

\* The lower-cased status text of the record of the call, "" when absent.
CallStatus == lower(IF call.info.status_text = None THEN <<>> ELSE call.info.status_text)

HasOpenToken == \E token \in OpenTokens : Contains(CallStatus, token)
HasClosedToken == \E token \in ClosedTokens : Contains(CallStatus, token)

\* C17: when seats_available is present, is_section_open returns True exactly
\* when seats_available > 0, whatever enrolled, capacity and status_text are.
C17_SeatsRuleFirst ==
    (call.fn = "is_section_open" /\ call.info.seats_available # NoneInt) =>
        (call.result <=> call.info.seats_available > 0)

\* seats_available = 0, enrolled below capacity and the status text "open": closed.
C17_Witness ==
    /\ call.fn = "is_section_open"
    /\ call.info.seats_available = 0
    /\ call.info.enrolled # NoneInt /\ call.info.capacity # NoneInt
    /\ call.info.enrolled < call.info.capacity
    /\ call.info.status_text = S_open
    /\ call.result = FALSE

\* C18: when seats_available is absent and enrolled and capacity are both
\* present, is_section_open returns True exactly when enrolled < capacity,
\* whatever status_text is.
C18_NumericRuleSecond ==
    ( call.fn = "is_section_open" /\ call.info.seats_available = NoneInt
      /\ call.info.enrolled # NoneInt /\ call.info.capacity # NoneInt ) =>
        (call.result <=> call.info.enrolled < call.info.capacity)

\* no seats_available, enrolled = capacity and the status text "open": closed.
C18_Witness ==
    /\ call.fn = "is_section_open"
    /\ call.info.seats_available = NoneInt
    /\ call.info.enrolled # NoneInt
    /\ call.info.enrolled = call.info.capacity
    /\ call.info.status_text = S_open
    /\ call.result = FALSE

\* The call is is_section_open on a record without seats_available and without
\* both of enrolled and capacity.
TextualCase ==
    /\ call.fn = "is_section_open"
    /\ call.info.seats_available = NoneInt
    /\ ~(call.info.enrolled # NoneInt /\ call.info.capacity # NoneInt)

\* C19 as stated: in the textual case the result is open exactly when the
\* status text contains an open token, closed exactly when it contains a
\* closed token or contains neither kind (or is absent).
C19_TextualRuleAsStated ==
    TextualCase =>
        /\ call.result <=> HasOpenToken
        /\ ~call.result <=> (HasClosedToken \/ ~(HasOpenToken \/ HasClosedToken))

\* C19, amended: in the textual case the result is open exactly when the
\* lower-cased status text contains open, available or seat, also when it
\* contains a closed token as well; it is closed in every other case: a closed
\* token only, neither kind, an empty or an absent status text.
C19_TextualRule ==
    TextualCase => (call.result <=> HasOpenToken)

\* A status text with an open and a closed token is classified open.
C19_Witness ==
    /\ TextualCase
    /\ HasOpenToken /\ HasClosedToken
    /\ call.result = TRUE

----------------------------------------------------------------------------
(* parse_row_element, the status text. *)

\* The lower-cased text of the row of the call.
CallRowText == lower(get_text(call.span, call.rest))

\* The status word the claim's order of keywords gives for the row text.
FirstKeyword ==
    IF Contains(CallRowText, S_full) THEN S_full
    ELSE IF Contains(CallRowText, S_open) \/ Contains(CallRowText, S_available) THEN S_open
    ELSE IF \E w \in {S_waitlist, S_wait_list, S_wl} : Contains(CallRowText, w)
         THEN S_waitlist
    ELSE IF Contains(CallRowText, S_closed) THEN S_closed
    ELSE None

\* C20: when the row has a status span, status_text is the span's (stripped,
\* lower-cased) text and the keyword scan is not run; when it has none,
\* status_text is the first keyword of the order full, open/available,
\* waitlist/wait list/wl, closed that the lower-cased row text contains, and
\* absent when it contains none.
C20_StatusText ==
    call.fn = "parse_row_element" =>
        call.result = IF call.span # NoSpan THEN lower(strip(call.span)) ELSE FirstKeyword

\* C21: the status_text of the dict parse_row_element returns is one of open,
\* full, waitlist, closed, or absent; never another string, never the empty
\* string.
C21_StatusVocabulary ==
    call.fn = "parse_row_element" =>
        call.result \in {S_open, S_full, S_waitlist, S_closed, None}

----------------------------------------------------------------------------
\* C22: a cycle that has no HTML, no rows or no row for its label sends
\* nothing, decides nothing and leaves data/notified.json as it was.
C22_NotFoundChangesNothing ==
    [][ (ev'.impl \in {"checker", "runner"} /\ ~ev'.matched) =>
           (store' = store /\ ev'.decision = "none" /\ ev'.outcome = "none") ]_vars

\* A runner cycle got no HTML for a label that has a stored entry.
C22_Witness ==
    /\ ev.impl = "runner" /\ ~ev.matched /\ ev.why = "no html"
    /\ ev.label \in Labels
    /\ store[ev.label] # NoEntry

----------------------------------------------------------------------------
(* One execution of runner.main over two subscribed labels, after any      *)
(* number of checker runs.  visits keeps the iterations of the for loop.   *)

\* The rows of these runs: the ones without enrollment numbers.
LoopRows == { info \in Infos : info.enrolled = NoneInt }

CheckerBefore(label, match, sent) ==
    /\ rpc = "idle"
    /\ visits = <<>>
    /\ CheckerMain(label, match, sent)
    /\ UNCHANGED hist

StartRun ==
    /\ visits = <<>>
    /\ RunnerStart

\* One iteration, and what happened in it.
RunnerStep(info, sent) ==
    /\ RunnerLabel(info, sent)
    /\ visits' = Append(visits,
                    [label |-> Head(rLabels),
                     what |-> IF ~ev'.matched THEN ev'.why
                              ELSE IF ev'.decision # "True" THEN ev'.decision
                              ELSE ev'.outcome])
    /\ UNCHANGED <<obs, lastSent, minGap, failed, again>>

RunnerSteps ==
    \E info \in LoopRows \cup NotFound \cup {FetchRaised}, sent \in Sent \cup {"none"} :
        RunnerStep(info, sent)

NextRunner ==
    \/ \E label \in Labels2, match \in LoopRows \cup NotFound, sent \in Sent \cup {"none"} :
          CheckerBefore(label, match, sent)
    \/ StartRun
    \/ RunnerSteps

SpecRunner == InitOverlap /\ [][NextRunner]_vars

\* An iteration of the loop ends: every call in it returns or raises.
SpecRunnerFair == SpecRunner /\ WF_vars(RunnerSteps)

\* The iterations of the loop that were for label l.
VisitsOf(l, v) == { i \in DOMAIN v : v[i].label = l }

\* C23: runner.main visits every subscribed label exactly once and then
\* ends, whatever was raised in the iterations before.
C23_EveryLabelOnce ==
    /\ [](\A l \in Labels2 : Cardinality(VisitsOf(l, visits)) <= 1)
    /\ [][ (rpc = "loop" /\ rpc' = "idle") =>
              \A l \in Labels2 : Cardinality(VisitsOf(l, visits')) = 1 ]_vars
    /\ (rpc = "loop") ~> (rpc = "idle")

\* runner.main has ended; its first iteration raised, and the second one
\* notified for the other label.
C23_Witness ==
    /\ rpc = "idle"
    /\ Len(visits) = 2
    /\ visits[1].what \in {"raise", "TypeError"}
    /\ visits[2].what = "True"

----------------------------------------------------------------------------
(* src/bot.py: the /track and /untrack commands.  A handler has no await   *)
(* between load_subs() and save_subs(), so the commands run one at a time. *)

MaxUsers == 3

\* ctx.author.id; str() of it is the stored user id, one string per id.
UserIds == 1..MaxUsers

S_cs == <<"c", "s">>
S_CS == <<"C", "S">>
S_4349 == <<"4", "3", "4", "9">>
S_003 == <<"0", "0", "3">>
S_3 == <<"3">>

\* What users type for subject, number and section.
Subjects == {S_cs, S_CS}
Numbers == {S_4349}
Sections == {S_003, S_3}

\* Python's str.upper(), on the letters the model's texts use.
upper(s) ==
    [i \in 1..Len(s) |->
        CASE s[i] = "c" -> "C" [] s[i] = "s" -> "S" [] OTHER -> s[i]]

\* Python's str.zfill(width), for texts without a sign.
RECURSIVE zfill(_, _)
zfill(s, width) == IF Len(s) >= width THEN s ELSE zfill(<<"0">> \o s, width)

\* bot.py: label = f"{subject.upper()} {number} {section}"
bot_label(subject, number, section) ==
    upper(subject) \o <<" ">> \o number \o <<" ">> \o section

\* checker_playwright.main: target_label = f"{subject} {number}.{section}"
\* with subject = argv[1].upper() and section = argv[3].zfill(3).
target_label(subject, number, section) ==
    upper(subject) \o <<" ">> \o number \o <<".">> \o zfill(section, 3)

\* user_id in subs[label]
InList(x, list) == \E i \in 1..Len(list) : list[i] = x

\* list.remove(x): the list without the first x.
RECURSIVE remove(_, _)
remove(list, x) ==
    IF list = <<>> THEN <<>>
    ELSE IF Head(list) = x THEN Tail(list)
    ELSE <<Head(list)>> \o remove(Tail(list), x)

\* subs.pop(label)
pop(d, label) == [l \in DOMAIN d \ {label} |-> d[l]]

\* untrack without `if not subs[label]: subs.pop(label)`.
untrack_keeps_empty_list(user_id, subject, number, section) ==
    LET label == bot_label(subject, number, section) IN
    /\ IF label \notin DOMAIN subs \/ ~InList(user_id, subs[label])
       THEN /\ call' = [fn |-> "untrack", user_id |-> user_id, subject |-> subject,
                        number |-> number, section |-> section, label |-> label,
                        result |-> "You were not tracking"]
            /\ UNCHANGED subs
       ELSE /\ subs' = [subs EXCEPT ![label] = remove(@, user_id)]
            /\ call' = [fn |-> "untrack", user_id |-> user_id, subject |-> subject,
                        number |-> number, section |-> section, label |-> label,
                        result |-> "Stopped tracking"]
    /\ UNCHANGED <<store, now, rpc, rNotified, rLabels, ev, hist, procs>>

track(user_id, subject, number, section) ==
    LET label == bot_label(subject, number, section)
        \* if label not in subs: subs[label] = []
        subs1 == IF label \notin DOMAIN subs THEN subs @@ (label :> <<>>) ELSE subs
    IN
    /\ IF InList(user_id, subs1[label])
       THEN \* respond and return: nothing is saved
            /\ call' = [fn |-> "track", user_id |-> user_id, subject |-> subject,
                        number |-> number, section |-> section, label |-> label,
                        result |-> "You're already tracking"]
            /\ UNCHANGED subs
       ELSE /\ subs' = [subs1 EXCEPT ![label] = Append(@, user_id)]
            /\ call' = [fn |-> "track", user_id |-> user_id, subject |-> subject,
                        number |-> number, section |-> section, label |-> label,
                        result |-> "Now tracking"]
    /\ UNCHANGED <<store, now, rpc, rNotified, rLabels, ev, hist, procs>>

untrack(user_id, subject, number, section) ==
    LET label == bot_label(subject, number, section) IN
    /\ IF label \notin DOMAIN subs \/ ~InList(user_id, subs[label])
       THEN /\ call' = [fn |-> "untrack", user_id |-> user_id, subject |-> subject,
                        number |-> number, section |-> section, label |-> label,
                        result |-> "You were not tracking"]
            /\ UNCHANGED subs
       ELSE /\ subs' = LET rest == remove(subs[label], user_id)
                       IN  IF rest = <<>> THEN pop(subs, label)
                           ELSE [subs EXCEPT ![label] = rest]
            /\ call' = [fn |-> "untrack", user_id |-> user_id, subject |-> subject,
                        number |-> number, section |-> section, label |-> label,
                        result |-> "Stopped tracking"]
    /\ UNCHANGED <<store, now, rpc, rNotified, rLabels, ev, hist, procs>>

NextBot ==
    \/ \E user_id \in UserIds, subject \in Subjects, number \in Numbers, section \in Sections :
          track(user_id, subject, number, section)
    \/ \E user_id \in UserIds, subject \in Subjects, number \in Numbers, section \in Sections :
          untrack(user_id, subject, number, section)

SpecBot == Init /\ [][NextBot]_vars

\* No user id twice in a list, and no label with an empty list.
SubsWellFormed ==
    \A label \in DOMAIN subs :
        /\ subs[label] # <<>>
        /\ \A i, j \in 1..Len(subs[label]) : subs[label][i] = subs[label][j] => i = j

\* C24: after any sequence of track and untrack commands from an empty
\* store, no user id is twice in the list of a label and no label has an
\* empty list; a track by a user who already tracks the label changes nothing.
C24_SubscriptionsWellFormed ==
    /\ []SubsWellFormed
    /\ [][ (call'.fn = "track" /\ call'.result = "You're already tracking") =>
              subs' = subs ]_vars

\* The last subscriber of a label has untracked it and its key is gone, while
\* another label still has two subscribers.
C24_Witness ==
    /\ call.fn = "untrack" /\ call.result = "Stopped tracking"
    /\ call.label \notin DOMAIN subs
    /\ \E label \in DOMAIN subs : Len(subs[label]) = 2

\* C25: the label /track stores for (subject, number, section) is the label
\* checker_playwright targets for them, "SUBJECT NUMBER.SECTION", which is the
\* label the parsed rows carry.
C25_TrackLabelIsTargetLabel ==
    call.fn = "track" =>
        call.label = target_label(call.subject, call.number, call.section)

====
